---------------------------- MODULE Spec2Model ----------------------------
(***************************************************************************)
(* Model of api/stats.js: the request handler (module.exports), the        *)
(* data-source client fetchGitHubData, and the pure functions              *)
(* calculateStreaks, getLast90Days, calculateLanguageStats and the chart   *)
(* geometry of generateSVG.                                                *)
(*                                                                         *)
(* Values.  Calendar dates are day numbers (the first calendar day is      *)
(* FirstDate, the next one FirstDate + 1, ...).  Where a date or a colour   *)
(* is expected, JavaScript null and undefined are Null, which is falsy;    *)
(* every date and colour is a non-zero number, which is truthy, as         *)
(* non-empty strings are.  Where an object is expected, null and undefined *)
(* are Nil, and a variable that holds a list is NilList until assigned.    *)
(***************************************************************************)
EXTENDS Integers, Sequences, FiniteSets

VARIABLES
    mode,          \* which entry point is being exercised
    pc,            \* position of the running function / handler
    weeks,         \* calendar.weeks: sequence of weeks, each a sequence of days
    today,         \* the UTC date computed from `new Date()` in calculateStreaks
    streaks,       \* result of calculateStreaks, or Nil
    repositories,  \* repositories.nodes: sequence of sequences of language edges
    languages,     \* result of calculateLanguageStats, or NilList
    activityDays,  \* result of getLast90Days, or NilList
    svg,           \* result of generateSVG, or Nil
    query,         \* req.query
    fetches,       \* the calls of fetch issued so far, in order
    responses,     \* what res.status(..).send(..) has sent so far, in order
    headers,       \* the headers set with res.setHeader
    userResponse,  \* fetchGitHubData: userResponse, or Nil
    createdAt,     \* userData.created_at, Null when undefined
    response,      \* fetchGitHubData: response (GraphQL), or Nil
    data,          \* fetchGitHubData: data, the GraphQL payload, or Nil
    calendar       \* the handler's calendar, or Nil

inputVars == <<weeks, repositories>>
analysisVars == <<today, streaks, languages, activityDays, svg>>
httpVars == <<query, fetches, responses, headers, userResponse, createdAt, response, data, calendar>>

vars == <<mode, pc, inputVars, analysisVars, httpVars>>

-----------------------------------------------------------------------------
(* Bounds of the explored inputs *)

MaxWeeks == 3          \* weeks in a calendar
MaxDaysPerWeek == 2    \* days in one week record (1..MaxDaysPerWeek)
MaxCount == 1          \* a day's contributionCount is 0 or MaxCount
MaxEdges == 7          \* language edges over all repositories
EdgesPerRepo == 2      \* language edges in one repository
MaxSize == 1           \* a language edge's size is 0 or MaxSize

Null == 0
Nil == [nil |-> TRUE]
NilList == <<Nil>>
FirstDate == 1

Counts == {0, MaxCount}
Sizes == {0, MaxSize}

\* (0 / 0) * 100 and its toFixed(2): "NaN"
NaN == -1

-----------------------------------------------------------------------------
(* Parts of the initial state shared by the entry points *)

NoInputs == weeks = <<>> /\ repositories = <<>>

NoResults ==
    /\ today = Null
    /\ streaks = Nil
    /\ languages = NilList
    /\ activityDays = NilList
    /\ svg = Nil

NoRequest ==
    /\ query = Nil
    /\ fetches = <<>>
    /\ responses = <<>>
    /\ headers = {}
    /\ userResponse = Nil
    /\ createdAt = Null
    /\ response = Nil
    /\ data = Nil
    /\ calendar = Nil

-----------------------------------------------------------------------------
(* JavaScript helpers *)

\* a || b
Or(a, b) == IF a # Null THEN a ELSE b

RECURSIVE FlatMap(_)
\* weeks.flatMap((week) => week.contributionDays)
FlatMap(ws) == IF ws = <<>> THEN <<>> ELSE Head(ws) \o FlatMap(Tail(ws))

-----------------------------------------------------------------------------
(* calculateStreaks *)

StreakVars0 ==
    [ currentStreak |-> 0, currentStreakStart |-> Null,
      longestStreak |-> 0, longestStreakStart |-> Null, longestStreakEnd |-> Null,
      tempStreak |-> 0, tempStreakStart |-> Null, tempStreakEnd |-> Null ]

\* mutant: the longest streak is compared before the running counter is incremented
StreakBodyLateIncrement(st, day, i, n) ==
    IF day.contributionCount > 0
    THEN LET end == IF st.tempStreak = 0 THEN day.date ELSE st.tempStreakEnd
             t   == st.tempStreak + 1
         IN  IF st.tempStreak > st.longestStreak
             THEN [st EXCEPT !.tempStreak = t, !.tempStreakStart = day.date,
                             !.tempStreakEnd = end,
                             !.longestStreak = st.tempStreak,
                             !.longestStreakStart = day.date,
                             !.longestStreakEnd = end]
             ELSE [st EXCEPT !.tempStreak = t, !.tempStreakStart = day.date,
                             !.tempStreakEnd = end]
    ELSE LET s == IF st.currentStreak = 0 /\ st.tempStreak > 0 /\ i = n - 1
                  THEN [st EXCEPT !.currentStreak = st.tempStreak,
                                  !.currentStreakStart = st.tempStreakStart]
                  ELSE st
         IN  [s EXCEPT !.tempStreak = 0, !.tempStreakStart = Null, !.tempStreakEnd = Null]

\* mutant: the end date of the longest streak is taken from the day being visited
StreakBodyEndFromDay(st, day, i, n) ==
    IF day.contributionCount > 0
    THEN LET end == IF st.tempStreak = 0 THEN day.date ELSE st.tempStreakEnd
             t   == st.tempStreak + 1
         IN  IF t > st.longestStreak
             THEN [st EXCEPT !.tempStreak = t, !.tempStreakStart = day.date,
                             !.tempStreakEnd = end,
                             !.longestStreak = t,
                             !.longestStreakStart = day.date,
                             !.longestStreakEnd = day.date]
             ELSE [st EXCEPT !.tempStreak = t, !.tempStreakStart = day.date,
                             !.tempStreakEnd = end]
    ELSE LET s == IF st.currentStreak = 0 /\ st.tempStreak > 0 /\ i = n - 1
                  THEN [st EXCEPT !.currentStreak = st.tempStreak,
                                  !.currentStreakStart = st.tempStreakStart]
                  ELSE st
         IN  [s EXCEPT !.tempStreak = 0, !.tempStreakStart = Null, !.tempStreakEnd = Null]

\* the body of the backward loop, for allDays[i] (0-based i) of n days
StreakBody(st, day, i, n) ==
    IF day.contributionCount > 0
    THEN LET end == IF st.tempStreak = 0 THEN day.date ELSE st.tempStreakEnd
             t   == st.tempStreak + 1
         IN  IF t > st.longestStreak
             THEN [st EXCEPT !.tempStreak = t, !.tempStreakStart = day.date,
                             !.tempStreakEnd = end,
                             !.longestStreak = t,
                             !.longestStreakStart = day.date,
                             !.longestStreakEnd = end]
             ELSE [st EXCEPT !.tempStreak = t, !.tempStreakStart = day.date,
                             !.tempStreakEnd = end]
    ELSE LET s == IF st.currentStreak = 0 /\ st.tempStreak > 0 /\ i = n - 1
                  THEN [st EXCEPT !.currentStreak = st.tempStreak,
                                  !.currentStreakStart = st.tempStreakStart]
                  ELSE st
         IN  [s EXCEPT !.tempStreak = 0, !.tempStreakStart = Null, !.tempStreakEnd = Null]

RECURSIVE StreakLoop(_, _, _)
\* for (let i = allDays.length - 1; i >= 0; i--)
StreakLoop(allDays, i, st) ==
    IF i < 0 THEN st
    ELSE StreakLoop(allDays, i - 1, StreakBody(st, allDays[i + 1], i, Len(allDays)))

\* mutant: longestStart falls back to today without trying the first day
calculateStreaksStartFromToday(ws, now) ==
    LET allDays == FlatMap(ws)
        n       == Len(allDays)
        st      == StreakLoop(allDays, n - 1, StreakVars0)
        fin     == IF n > 0 /\ allDays[n].contributionCount > 0
                   THEN [st EXCEPT !.currentStreak = st.tempStreak,
                                   !.currentStreakStart = st.tempStreakStart]
                   ELSE st
        first   == IF n > 0 THEN allDays[1].date ELSE Null
    IN  [ current      |-> fin.currentStreak,
          currentStart |-> Or(fin.currentStreakStart, now),
          longest      |-> fin.longestStreak,
          longestStart |-> Or(fin.longestStreakStart, now),
          longestEnd   |-> Or(fin.longestStreakEnd, now) ]

calculateStreaks(ws, now) ==
    LET allDays == FlatMap(ws)
        n       == Len(allDays)
        st      == StreakLoop(allDays, n - 1, StreakVars0)
        fin     == IF n > 0 /\ allDays[n].contributionCount > 0
                   THEN [st EXCEPT !.currentStreak = st.tempStreak,
                                   !.currentStreakStart = st.tempStreakStart]
                   ELSE st
        first   == IF n > 0 THEN allDays[1].date ELSE Null
    IN  [ current      |-> fin.currentStreak,
          currentStart |-> Or(fin.currentStreakStart, now),
          longest      |-> fin.longestStreak,
          longestStart |-> Or(Or(fin.longestStreakStart, first), now),
          longestEnd   |-> Or(fin.longestStreakEnd, now) ]

-----------------------------------------------------------------------------
(* Calendar inputs: the data source appends weeks of consecutive dates *)

NumDays == Len(FlatMap(weeks))

\* a week record of consecutive dates, the first one being first
WeekOf(cs, first) == [k \in 1..Len(cs) |->
                        [contributionCount |-> cs[k], date |-> first + k - 1]]

NewWeek(cs) == WeekOf(cs, FirstDate + NumDays)

WeekCounts == UNION {[1..len -> Counts] : len \in 1..MaxDaysPerWeek}

\* the invocation date: the calendar's last date, or the day after it
Todays == IF NumDays = 0 THEN {FirstDate}
          ELSE {FirstDate + NumDays - 1, FirstDate + NumDays}

AddWeek ==
    /\ pc = "input"
    /\ Len(weeks) < MaxWeeks
    /\ \E cs \in WeekCounts : weeks' = Append(weeks, NewWeek(cs))
    /\ UNCHANGED <<mode, pc, repositories, analysisVars, httpVars>>

RunCalculateStreaks ==
    /\ mode = "streaks"
    /\ pc = "input"
    /\ \E now \in Todays :
         /\ today' = now
         /\ streaks' = calculateStreaks(weeks, now)
    /\ pc' = "done"
    /\ UNCHANGED <<mode, inputVars, languages, activityDays, svg, httpVars>>

InitStreaks ==
    /\ mode = "streaks"
    /\ pc = "input"
    /\ NoInputs
    /\ NoResults
    /\ NoRequest

NextStreaks == AddWeek \/ RunCalculateStreaks

SpecStreaks == InitStreaks /\ [][NextStreaks]_vars

-----------------------------------------------------------------------------
(* calculateLanguageStats *)

\* color || "#858585"
DefaultColor == 858585

\* .slice(0, 5)
TopN == 5

\* position of name among the keys of languageMap (insertion order), 0 if absent
KeyIndex(languageMap, name) ==
    IF \E k \in 1..Len(languageMap) : languageMap[k].name = name
    THEN CHOOSE k \in 1..Len(languageMap) : languageMap[k].name = name
    ELSE 0

\* the inner forEach callback: one edge into languageMap
AccumulateEdge(languageMap, edge) ==
    LET k == KeyIndex(languageMap, edge.node.name)
    IN  IF k # 0
        THEN [languageMap EXCEPT ![k].size = @ + edge.size]
        ELSE Append(languageMap, [name  |-> edge.node.name,
                                  size  |-> edge.size,
                                  color |-> Or(edge.node.color, DefaultColor)])

RECURSIVE AccumulateEdges(_, _)
\* repo.languages.edges.forEach(...)
AccumulateEdges(languageMap, edges) ==
    IF edges = <<>> THEN languageMap
    ELSE AccumulateEdges(AccumulateEdge(languageMap, Head(edges)), Tail(edges))

RECURSIVE AccumulateRepos(_, _)
\* repositories.forEach(...)
AccumulateRepos(languageMap, repos) ==
    IF repos = <<>> THEN languageMap
    ELSE AccumulateRepos(AccumulateEdges(languageMap, Head(repos)), Tail(repos))

RECURSIVE SumSizes(_)
\* Object.values(languageMap).reduce((sum, lang) => sum + lang.size, 0)
SumSizes(entries) ==
    IF entries = <<>> THEN 0 ELSE Head(entries).size + SumSizes(Tail(entries))

\* ((size / totalSize) * 100).toFixed(2), in hundredths of a percent
Percentage(size, totalSize) ==
    IF totalSize = 0 THEN NaN
    ELSE (size * 20000 + totalSize) \div (2 * totalSize)

\* mutant: an entry is placed before the entries of equal size
InsertBySizeTiesFirst(sorted, x) ==
    LET before == {k \in 1..Len(sorted) : sorted[k].size > x.size}
        m      == Cardinality(before)
    IN  SubSeq(sorted, 1, m) \o <<x>> \o SubSeq(sorted, m + 1, Len(sorted))

\* one step of the stable sort under (a, b) => b.size - a.size:
\* x goes after every entry whose size is not smaller
InsertBySize(sorted, x) ==
    LET before == {k \in 1..Len(sorted) : sorted[k].size >= x.size}
        m      == Cardinality(before)
    IN  SubSeq(sorted, 1, m) \o <<x>> \o SubSeq(sorted, m + 1, Len(sorted))

RECURSIVE SortBySize(_, _)
\* .sort((a, b) => b.size - a.size), stable
SortBySize(sorted, rest) ==
    IF rest = <<>> THEN sorted
    ELSE SortBySize(InsertBySize(sorted, Head(rest)), Tail(rest))

Slice(s, count) == SubSeq(s, 1, IF Len(s) < count THEN Len(s) ELSE count)

calculateLanguageStats(repos) ==
    LET languageMap == AccumulateRepos(<<>>, repos)
        totalSize   == SumSizes(languageMap)
        mapped      == [k \in 1..Len(languageMap) |->
                          [ name       |-> languageMap[k].name,
                            color      |-> languageMap[k].color,
                            percentage |-> Percentage(languageMap[k].size, totalSize),
                            size       |-> languageMap[k].size ]]
    IN  Slice(SortBySize(<<>>, mapped), TopN)

-----------------------------------------------------------------------------
(* Repository inputs.  Languages are numbered in the order in which they   *)
(* first appear (the number stands for a name such as "Go", a key kept in  *)
(* insertion order); a language's colour is a property of the language, and*)
(* the data source reports none (null) for some languages.  Repositories   *)
(* are filled one after the other, EdgesPerRepo edges each.                *)

InputEdges == FlatMap(repositories)

InputNames == {InputEdges[k].node.name : k \in 1..Len(InputEdges)}

ColorOf(name) == IF name % 2 = 0 THEN Null ELSE name

NewEdge(name, size) == [size |-> size, node |-> [name |-> name, color |-> ColorOf(name)]]

\* the query asks for each repository's languages ordered by size, largest
\* first; a repository lists a language once
AddEdge ==
    /\ pc = "input"
    /\ Len(InputEdges) < MaxEdges
    /\ \E name \in 1..(Cardinality(InputNames) + 1) : \E size \in Sizes :
         LET r == Len(repositories)
         IN  IF r > 0 /\ Len(repositories[r]) < EdgesPerRepo
             THEN /\ \A k \in 1..Len(repositories[r]) :
                        /\ repositories[r][k].node.name # name
                        /\ repositories[r][k].size >= size
                  /\ repositories' =
                        [repositories EXCEPT ![r] = Append(@, NewEdge(name, size))]
             ELSE repositories' = Append(repositories, <<NewEdge(name, size)>>)
    /\ UNCHANGED <<mode, pc, weeks, analysisVars, httpVars>>

RunCalculateLanguageStats ==
    /\ mode = "languages"
    /\ pc = "input"
    /\ languages' = calculateLanguageStats(repositories)
    /\ pc' = "done"
    /\ UNCHANGED <<mode, inputVars, today, streaks, activityDays, svg, httpVars>>

InitLanguages ==
    /\ mode = "languages"
    /\ pc = "input"
    /\ NoInputs
    /\ NoResults
    /\ NoRequest

NextLanguages == AddEdge \/ RunCalculateLanguageStats

SpecLanguages == InitLanguages /\ [][NextLanguages]_vars

-----------------------------------------------------------------------------
(* getLast90Days and generateSVG.  A JavaScript number that results from a *)
(* division is kept as a fraction [n, d]; d = 0 is NaN (0 / 0).            *)

\* allDays.slice(-90)
WindowSize == 90

getLast90Days(ws) ==
    LET allDays == FlatMap(ws)
        n       == Len(allDays)
    IN  IF n <= WindowSize THEN allDays ELSE SubSeq(allDays, n - WindowSize + 1, n)

width == 800
height == 680
graphWidth == 720
graphHeight == 120
padding == 30
barWidth == 720

NaNNumber == [n |-> 0, d |-> 0]

\* a / b for b >= 0 and a >= 0; a positive number over 0 is Infinity
Divide(a, b) == IF b = 0 THEN (IF a = 0 THEN NaNNumber ELSE [n |-> 1, d |-> 0])
                ELSE [n |-> a, d |-> b]

\* q * k for an integer k > 0
Times(q, k) == IF q.d = 0 THEN q ELSE [n |-> q.n * k, d |-> q.d]

\* k + q for an integer k
Plus(k, q) == IF q.d = 0 THEN q ELSE [n |-> k * q.d + q.n, d |-> q.d]

\* k - q for an integer k and a finite or NaN q
Minus(k, q) == IF q.d = 0 THEN q ELSE [n |-> k * q.d - q.n, d |-> q.d]

\* Math.max(...activityDays.map((d) => d.contributionCount), 1)
MaxContributions(days) ==
    LET cs == {days[k].contributionCount : k \in 1..Len(days)} \cup {1}
    IN  CHOOSE m \in cs : \A c \in cs : c <= m

\* x of activityDays[index] (0-based) among length days
PointX(index, length) ==
    Plus(padding, Times(Divide(index, length - 1), graphWidth - 2 * padding))

\* y of a day with contributionCount count
PointY(count, maxContributions) ==
    Minus(graphHeight - padding,
          Times(Divide(count, maxContributions), graphHeight - 2 * padding))

\* formatDate / getAccountCreationDate: the en-US caption of a date;
\* new Date(undefined) is formatted as "Invalid Date"
FormatDate(date) == IF date = Null THEN <<"Invalid Date">> ELSE <<"en-US", date>>

RECURSIVE SegmentStarts(_, _)
\* currentX before each language's segment, in 1/10000 of a pixel; NaN spreads
SegmentStarts(langs, currentX) ==
    IF langs = <<>> THEN <<>>
    ELSE LET w    == IF Head(langs).percentage = NaN \/ currentX = NaN THEN NaN
                     ELSE Head(langs).percentage * barWidth
             next == IF w = NaN THEN NaN ELSE currentX + w
         IN  <<currentX>> \o SegmentStarts(Tail(langs), next)

generateSVG(totalContributions, strk, days, langs, created) ==
    LET maxContributions == MaxContributions(days)
        starts == SegmentStarts(langs, 0)
    IN  [ width  |-> width,
          height |-> height,
          points |-> [k \in 1..Len(days) |->
                        [ x |-> PointX(k - 1, Len(days)),
                          y |-> PointY(days[k].contributionCount, maxContributions) ]],
          maxContributions |-> maxContributions,
          totalContributions |-> totalContributions,
          accountCreated   |-> FormatDate(created),
          current          |-> strk.current,
          currentStartDate |-> FormatDate(strk.currentStart),
          longest          |-> strk.longest,
          longestStartDate |-> FormatDate(strk.longestStart),
          longestEndDate   |-> FormatDate(strk.longestEnd),
          languageBarSegments |->
              [k \in 1..Len(langs) |->
                 [ x     |-> starts[k],
                   width |-> IF langs[k].percentage = NaN THEN NaN
                             ELSE langs[k].percentage * barWidth,
                   fill  |-> langs[k].color ]],
          languageList |->
              [k \in 1..Len(langs) |->
                 [ row  |-> (k - 1) \div 2,
                   col  |-> (k - 1) % 2,
                   name |-> langs[k].name,
                   percentage |-> langs[k].percentage ]] ]

\* total of a calendar's contribution counts, as the data source reports it
RECURSIVE SumCounts(_)
SumCounts(days) ==
    IF days = <<>> THEN 0 ELSE Head(days).contributionCount + SumCounts(Tail(days))

\* the calendar is analysed and drawn as the handler does it
RunGenerateSVG ==
    /\ mode = "svg"
    /\ pc = "input"
    /\ \E now \in Todays :
         LET strk == calculateStreaks(weeks, now)
             days == getLast90Days(weeks)
             langs == calculateLanguageStats(repositories)
         IN  /\ today' = now
             /\ streaks' = strk
             /\ activityDays' = days
             /\ languages' = langs
             /\ svg' = generateSVG(SumCounts(FlatMap(weeks)), strk, days, langs, FirstDate)
    /\ pc' = "done"
    /\ UNCHANGED <<mode, inputVars, httpVars>>

InitSVG ==
    /\ mode = "svg"
    /\ pc = "input"
    /\ NoInputs
    /\ NoResults
    /\ NoRequest

NextSVG == AddWeek \/ RunGenerateSVG

SpecSVG == InitSVG /\ [][NextSVG]_vars

-----------------------------------------------------------------------------
(* The request handler (module.exports) and fetchGitHubData.  Each await   *)
(* is a step; an absent property is an absent record field.                *)

Has(rec, field) == field \in DOMAIN rec

\* calendars and repository lists a payload may carry
SampleWeeks ==
    { <<>>,
      <<WeekOf(<<0>>, FirstDate)>>,
      <<WeekOf(<<MaxCount>>, FirstDate)>>,
      <<WeekOf(<<MaxCount, 0>>, FirstDate), WeekOf(<<MaxCount>>, FirstDate + 2)>> }

SampleRepositories ==
    { <<>>,
      << <<NewEdge(1, MaxSize), NewEdge(2, 0)>>, <<NewEdge(2, MaxSize)>> >> }

SampleCalendars ==
    {[totalContributions |-> SumCounts(FlatMap(w)), weeks |-> w] : w \in SampleWeeks}
    \cup {[weeks |-> w] : w \in SampleWeeks}
    \cup {[totalContributions |-> 0]}

SampleUsers ==
    {[contributionsCollection |-> [contributionCalendar |-> c],
      repositories |-> [nodes |-> r]] : c \in SampleCalendars, r \in SampleRepositories}

WellFormedUser ==
    [contributionsCollection |->
        [contributionCalendar |->
            [totalContributions |-> MaxCount, weeks |-> <<WeekOf(<<MaxCount>>, FirstDate)>>]],
     repositories |-> [nodes |-> <<>>]]

ErrorLists ==
    { <<>>,
      <<[message |-> "Could not resolve to a User"]>>,
      <<[message |-> "API rate limit exceeded"], [message |-> "Something went wrong"]>> }

\* what response.json() may yield for the GraphQL call
Payloads ==
    {[data |-> [user |-> u]] : u \in SampleUsers}
    \cup {[data |-> [user |-> Nil]]}
    \cup {[message |-> "Bad credentials"]}
    \cup {[errors |-> e] : e \in ErrorLists}
    \cup {[errors |-> e, data |-> Nil] : e \in ErrorLists}
    \cup {[errors |-> e, data |-> [user |-> WellFormedUser]] : e \in ErrorLists}

NoError == ""

Text(message) == [kind |-> "text", text |-> message]

\* catch (error) { res.status(500).send(`Error: ${error.message}`) }
Catch(message) ==
    /\ responses' = Append(responses, [status |-> 500, body |-> Text(<<"Error: ", message>>)])
    /\ pc' = "done"

\* mutant: the 400 response is sent without returning
HandlerStartNoReturn ==
    /\ mode = "handler"
    /\ pc = "start"
    /\ IF ~Has(query, "username") \/ query.username = ""
       THEN /\ responses' = Append(responses,
                   [status |-> 400, body |-> Text(<<"Username parameter is required">>)])
            /\ pc' = "fetchUser"
       ELSE /\ pc' = "fetchUser"
            /\ UNCHANGED responses
    /\ UNCHANGED <<mode, inputVars, analysisVars, query, fetches, headers,
                   userResponse, createdAt, response, data, calendar>>

\* const { username } = req.query; if (!username) return res.status(400).send(...)
HandlerStart ==
    /\ mode = "handler"
    /\ pc = "start"
    /\ IF ~Has(query, "username") \/ query.username = ""
       THEN /\ responses' = Append(responses,
                   [status |-> 400, body |-> Text(<<"Username parameter is required">>)])
            /\ pc' = "done"
       ELSE /\ pc' = "fetchUser"
            /\ UNCHANGED responses
    /\ UNCHANGED <<mode, inputVars, analysisVars, query, fetches, headers,
                   userResponse, createdAt, response, data, calendar>>

\* await fetch(`https://api.github.com/users/${username}`): rejects, or a response
FetchUser ==
    /\ mode = "handler"
    /\ pc = "fetchUser"
    /\ fetches' = Append(fetches, "user")
    /\ \/ /\ Catch("request to https://api.github.com failed")
          /\ UNCHANGED userResponse
       \/ /\ \E ok \in BOOLEAN : userResponse' = [ok |-> ok]
          /\ pc' = "userJson"
          /\ UNCHANGED responses
    /\ UNCHANGED <<mode, inputVars, analysisVars, query, headers,
                   createdAt, response, data, calendar>>

\* what userResponse.json() may yield: the profile, or an error document
UserDocuments ==
    IF userResponse.ok
    THEN {[login |-> query.username, created_at |-> FirstDate], [login |-> query.username]}
    ELSE {[message |-> "Not Found"]}

\* userData = await userResponse.json(); createdAt = userData.created_at
UserJson ==
    /\ mode = "handler"
    /\ pc = "userJson"
    /\ \/ /\ Catch("invalid json response body")
          /\ UNCHANGED createdAt
       \/ /\ \E userData \in UserDocuments :
                createdAt' = IF Has(userData, "created_at") THEN userData.created_at ELSE Null
          /\ pc' = "fetchGraphql"
          /\ UNCHANGED responses
    /\ UNCHANGED <<mode, inputVars, analysisVars, query, fetches, headers,
                   userResponse, response, data, calendar>>

\* response = await fetch("https://api.github.com/graphql", ...);
\* if (!response.ok) throw new Error("Failed to fetch GitHub data")
FetchGraphql ==
    /\ mode = "handler"
    /\ pc = "fetchGraphql"
    /\ fetches' = Append(fetches, "graphql")
    /\ \/ /\ Catch("request to https://api.github.com/graphql failed")
          /\ UNCHANGED response
       \/ /\ response' = [ok |-> FALSE]
          /\ Catch("Failed to fetch GitHub data")
       \/ /\ response' = [ok |-> TRUE]
          /\ pc' = "graphqlJson"
          /\ UNCHANGED responses
    /\ UNCHANGED <<mode, inputVars, analysisVars, query, headers,
                   userResponse, createdAt, data, calendar>>

\* mutant: a payload that carries data is used although it lists errors
PayloadErrorUnlessData(payload) ==
    IF Has(payload, "errors") /\ ~(Has(payload, "data") /\ payload.data # Nil)
    THEN IF payload.errors = <<>>
         THEN "Cannot read properties of undefined (reading 'message')"
         ELSE payload.errors[1].message
    ELSE IF ~Has(payload, "data") \/ payload.data = Nil
         THEN "Cannot read properties of undefined (reading 'user')"
         ELSE IF payload.data.user = Nil
              THEN "Cannot read properties of null (reading 'contributionsCollection')"
              ELSE NoError

\* the message of the error fetchGitHubData throws on payload, NoError if it returns:
\* if (data.errors) throw new Error(data.errors[0].message); then the property
\* reads of the return statement (an array, even an empty one, is truthy)
PayloadError(payload) ==
    IF Has(payload, "errors")
    THEN IF payload.errors = <<>>
         THEN "Cannot read properties of undefined (reading 'message')"
         ELSE payload.errors[1].message
    ELSE IF ~Has(payload, "data") \/ payload.data = Nil
         THEN "Cannot read properties of undefined (reading 'user')"
         ELSE IF payload.data.user = Nil
              THEN "Cannot read properties of null (reading 'contributionsCollection')"
              ELSE NoError

\* data = await response.json(); the errors check; the return of
\* { calendar, repositories, createdAt } to the handler
GraphqlJson ==
    /\ mode = "handler"
    /\ pc = "graphqlJson"
    /\ \/ /\ Catch("invalid json response body")
          /\ UNCHANGED <<data, calendar, repositories>>
       \/ \E payload \in Payloads :
            /\ data' = payload
            /\ IF PayloadError(payload) # NoError
               THEN /\ Catch(PayloadError(payload))
                    /\ UNCHANGED <<calendar, repositories>>
               ELSE /\ calendar' = payload.data.user.contributionsCollection.contributionCalendar
                    /\ repositories' = payload.data.user.repositories.nodes
                    /\ pc' = "analyze"
                    /\ UNCHANGED responses
    /\ UNCHANGED <<mode, weeks, analysisVars, query, fetches, headers,
                   userResponse, createdAt, response>>

\* streaks = calculateStreaks(calendar.weeks); activityDays = getLast90Days(...);
\* languages = calculateLanguageStats(repositories)
Analyze ==
    /\ mode = "handler"
    /\ pc = "analyze"
    /\ IF ~Has(calendar, "weeks")
       THEN /\ Catch("Cannot read properties of undefined (reading 'flatMap')")
            /\ UNCHANGED analysisVars
       ELSE /\ \E now \in {FirstDate + Len(FlatMap(calendar.weeks))} :
                 /\ today' = now
                 /\ streaks' = calculateStreaks(calendar.weeks, now)
            /\ activityDays' = getLast90Days(calendar.weeks)
            /\ languages' = calculateLanguageStats(repositories)
            /\ pc' = "render"
            /\ UNCHANGED <<svg, responses>>
    /\ UNCHANGED <<mode, inputVars, query, fetches, headers,
                   userResponse, createdAt, response, data, calendar>>

\* svg = generateSVG(calendar.totalContributions, streaks, activityDays, languages, createdAt)
Render ==
    /\ mode = "handler"
    /\ pc = "render"
    /\ IF ~Has(calendar, "totalContributions")
       THEN /\ Catch("Cannot read properties of undefined (reading 'toLocaleString')")
            /\ UNCHANGED svg
       ELSE /\ svg' = generateSVG(calendar.totalContributions, streaks, activityDays,
                                  languages, createdAt)
            /\ pc' = "respond"
            /\ UNCHANGED responses
    /\ UNCHANGED <<mode, inputVars, today, streaks, languages, activityDays, query,
                   fetches, headers, userResponse, createdAt, response, data, calendar>>

\* the two setHeader calls and res.status(200).send(svg)
Respond ==
    /\ mode = "handler"
    /\ pc = "respond"
    /\ headers' = headers \cup { <<"Content-Type", "image/svg+xml">>,
                                 <<"Cache-Control", "public, max-age=14400">> }
    /\ responses' = Append(responses, [status |-> 200, body |-> [kind |-> "svg", svg |-> svg]])
    /\ pc' = "done"
    /\ UNCHANGED <<mode, inputVars, analysisVars, query, fetches,
                   userResponse, createdAt, response, data, calendar>>

Queries == { [other |-> "1"], [username |-> ""], [username |-> "octocat"] }

Init ==
    /\ mode = "handler"
    /\ pc = "start"
    /\ NoInputs
    /\ NoResults
    /\ query \in Queries
    /\ fetches = <<>>
    /\ responses = <<>>
    /\ headers = {}
    /\ userResponse = Nil
    /\ createdAt = Null
    /\ response = Nil
    /\ data = Nil
    /\ calendar = Nil

Next ==
    \/ HandlerStart
    \/ FetchUser
    \/ UserJson
    \/ FetchGraphql
    \/ GraphqlJson
    \/ Analyze
    \/ Render
    \/ Respond

Spec == Init /\ [][Next]_vars

-----------------------------------------------------------------------------
(* Streak properties.  Runs are described on the flattened calendar,      *)
(* independently of the backward scan.                                     *)

Days == FlatMap(weeks)

Positive(k) == Days[k].contributionCount > 0

\* days a..b are all positive
IsRun(a, b) == /\ 1 <= a /\ a <= b /\ b <= Len(Days)
               /\ \A k \in a..b : Positive(k)

\* a run that cannot be extended on either side
IsMaximalRun(a, b) == /\ IsRun(a, b)
                      /\ (a = 1 \/ ~Positive(a - 1))
                      /\ (b = Len(Days) \/ ~Positive(b + 1))

RunLengths == {0} \cup {b - a + 1 : <<a, b>> \in {r \in (1..Len(Days)) \X (1..Len(Days)) : IsRun(r[1], r[2])}}

LongestRun == CHOOSE m \in RunLengths : \A l \in RunLengths : l <= m

\* length of the maximal run that ends at the last day
TrailingRun ==
    IF Len(Days) = 0 \/ ~Positive(Len(Days)) THEN 0
    ELSE LET a == CHOOSE x \in 1..Len(Days) : IsMaximalRun(x, Len(Days))
         IN  Len(Days) - a + 1

StreaksDone == mode = "streaks" /\ pc = "done"

\* C1: current is the length of the maximal run of positive days that ends
\* at the last day of the flattened sequence (0 when the last day is zero).
C1_CurrentIsTrailingRun == StreaksDone => streaks.current = TrailingRun

\* C2: longest is the maximum length of a run of positive days; when it is
\* positive, longestStart and longestEnd are the dates of the first and the
\* last day of one maximal run of exactly that length.
C2_LongestIsMaxRun ==
    StreaksDone =>
        /\ streaks.longest = LongestRun
        /\ streaks.longest > 0 =>
             \E a \in 1..Len(Days) : \E b \in a..Len(Days) :
                 /\ IsMaximalRun(a, b)
                 /\ b - a + 1 = streaks.longest
                 /\ streaks.longestStart = Days[a].date
                 /\ streaks.longestEnd = Days[b].date

\* a calendar ending in a zero day, with two separate runs of different
\* lengths, the longer one of at least two days
C2_Witness ==
    /\ StreaksDone
    /\ Len(Days) > 0 /\ ~Positive(Len(Days))
    /\ streaks.longest >= 2
    /\ \E a \in 1..Len(Days) : \E b \in a..Len(Days) :
         IsMaximalRun(a, b) /\ b - a + 1 < streaks.longest

\* C3: longest >= current >= 0.
C3_LongestAtLeastCurrent ==
    StreaksDone => streaks.longest >= streaks.current /\ streaks.current >= 0

\* the last day is positive, so current is assigned after the loop from the
\* running counter, and the scan has met a zero day on the way
C3_Witness ==
    /\ StreaksDone
    /\ Len(Days) > 1 /\ Positive(Len(Days))
    /\ \E k \in 1..Len(Days) : ~Positive(k)
    /\ streaks.current > 0

AllZero == \A k \in 1..Len(Days) : ~Positive(k)

\* C4: an all-zero calendar gives current = 0 and longest = 0, with
\* longestStart and longestEnd both the date of the first day, or both
\* today's date when the sequence is empty.
C4_AllZeroDefaults ==
    (StreaksDone /\ AllZero) =>
        /\ streaks.current = 0
        /\ streaks.longest = 0
        /\ Len(Days) > 0 => /\ streaks.longestStart = Days[1].date
                            /\ streaks.longestEnd = Days[1].date
        /\ Len(Days) = 0 => /\ streaks.longestStart = today
                            /\ streaks.longestEnd = today

\* C4, amended: an all-zero calendar gives current = 0 and longest = 0, with
\* longestStart the date of the first day and longestEnd today's date; both
\* are today's date when the sequence is empty.
C4_AllZeroStartFirstEndToday ==
    (StreaksDone /\ AllZero) =>
        /\ streaks.current = 0
        /\ streaks.longest = 0
        /\ streaks.longestEnd = today
        /\ streaks.longestStart = (IF Len(Days) > 0 THEN Days[1].date ELSE today)

\* an all-zero calendar of several days, whose first date is not today
C4_Witness ==
    /\ StreaksDone
    /\ AllZero
    /\ Len(Days) >= 2
    /\ today # Days[1].date

-----------------------------------------------------------------------------
(* Language properties, stated on the flattened input edges *)

RECURSIVE SizeOf(_, _)
\* sum of the sizes of the edges of edges that carry name
SizeOf(name, edges) ==
    IF edges = <<>> THEN 0
    ELSE (IF Head(edges).node.name = name THEN Head(edges).size ELSE 0)
         + SizeOf(name, Tail(edges))

\* index of the first input edge that carries name
FirstSeen(name) ==
    CHOOSE k \in 1..Len(InputEdges) :
        /\ InputEdges[k].node.name = name
        /\ \A j \in 1..(k - 1) : InputEdges[j].node.name # name

\* accumulated size and first appearance of every input language
InputSize == [name \in InputNames |-> SizeOf(name, InputEdges)]
InputFirstSeen == [name \in InputNames |-> FirstSeen(name)]

\* name a ranks before name b: larger accumulated size, or equal size and seen first
RanksBefore(size, seen, a, b) ==
    \/ size[a] > size[b]
    \/ size[a] = size[b] /\ seen[a] < seen[b]

ReturnedNames == {languages[k].name : k \in 1..Len(languages)}

LanguagesDone == mode = "languages" /\ pc = "done"

\* C8: at most 5 entries, one per distinct language name, each with the sum
\* of that language's edge sizes, ordered non-increasing by size with ties in
\* first-seen order, and they are the 5 largest of the full ranking.
C8_TopFiveRanking ==
    LanguagesDone =>
        LET size == InputSize
            seen == InputFirstSeen
        IN  /\ Len(languages) <= 5
            /\ Len(languages) = (IF Cardinality(InputNames) < 5
                                 THEN Cardinality(InputNames) ELSE 5)
            /\ \A i \in 1..Len(languages) :
                   /\ languages[i].name \in InputNames
                   /\ languages[i].size = size[languages[i].name]
            /\ \A i, j \in 1..Len(languages) :
                   i < j => /\ languages[i].name # languages[j].name
                            /\ languages[i].size >= languages[j].size
                            /\ RanksBefore(size, seen, languages[i].name, languages[j].name)
            /\ \A a \in ReturnedNames : \A b \in InputNames \ ReturnedNames :
                   RanksBefore(size, seen, a, b)

\* more than 5 languages, one of them accumulated over two repositories, and
\* two returned entries of equal positive size
C8_Witness ==
    /\ LanguagesDone
    /\ Cardinality(InputNames) > 5
    /\ \E r1, r2 \in 1..Len(repositories) :
         /\ r1 < r2
         /\ \E e1 \in 1..Len(repositories[r1]) : \E e2 \in 1..Len(repositories[r2]) :
              /\ repositories[r1][e1].node.name = repositories[r2][e2].node.name
              /\ repositories[r1][e1].size > 0
              /\ repositories[r2][e2].size > 0
    /\ \E i, j \in 1..Len(languages) :
         i < j /\ languages[i].size = languages[j].size /\ languages[i].size > 0

\* C9: when the total accumulated size is 0 (no edges, or only edges of
\* size 0) the result is the empty sequence.
C9_ZeroTotalGivesEmpty ==
    (LanguagesDone /\ \A k \in 1..Len(InputEdges) : InputEdges[k].size = 0)
        => languages = <<>>

-----------------------------------------------------------------------------
(* Chart geometry *)

SVGDone == mode = "svg" /\ pc = "done"

\* C10: with N activity days, day i is drawn at
\* x = padding + i / (N - 1) * (graphWidth - 2 * padding) for N >= 2 and at
\* x = padding = 30 for N = 1; every x is a number.
C10_PointXDefined ==
    SVGDone =>
        LET N == Len(activityDays)
        IN  \A k \in 1..N :
              LET x == svg.points[k].x
              IN  /\ x.d # 0
                  /\ N >= 2 => x.n * (N - 1) =
                                 (30 * (N - 1) + (k - 1) * (720 - 2 * 30)) * x.d
                  /\ N = 1 => x.n = 30 * x.d

-----------------------------------------------------------------------------
(* Handler properties *)

NoUsername == ~Has(query, "username") \/ query.username = ""

NothingAnalysed ==
    /\ streaks = Nil
    /\ languages = NilList
    /\ activityDays = NilList
    /\ svg = Nil

\* C5: without a username exactly one response is sent, with status 400 and
\* a text body; nothing is fetched, analysed or rendered, no header is set
\* and no 200 or 500 response follows.
C5_MissingUsername ==
    (mode = "handler" /\ NoUsername) =>
        /\ pc \in {"start", "done"}
        /\ fetches = <<>>
        /\ NothingAnalysed
        /\ headers = {}
        /\ Len(responses) = (IF pc = "done" THEN 1 ELSE 0)
        /\ \A k \in 1..Len(responses) :
               /\ responses[k].status = 400
               /\ responses[k].body.kind = "text"

\* the request with an empty username has been answered
C5_Witness ==
    /\ mode = "handler"
    /\ Has(query, "username") /\ query.username = ""
    /\ pc = "done"
    /\ Len(responses) = 1

\* the payload is a user with a calendar (weeks and total) and repositories
WellFormedPayload ==
    /\ ~Has(data, "errors")
    /\ Has(data, "data")
    /\ data.data # Nil
    /\ data.data.user # Nil
    /\ Has(data.data.user.contributionsCollection.contributionCalendar, "weeks")
    /\ Has(data.data.user.contributionsCollection.contributionCalendar, "totalContributions")

\* both calls succeeded and returned every field the handler reads
UpstreamSucceeded ==
    /\ Has(userResponse, "ok") /\ userResponse.ok
    /\ createdAt # Null
    /\ Has(response, "ok") /\ response.ok
    /\ WellFormedPayload

\* C6: with a username, when a call to the data source fails (transport
\* error or non-success status, on the profile fetch or the GraphQL fetch) or
\* the returned data is malformed or lacks fields, the request ends in one
\* 500 response with a text body, and no image header or 200 response.
C6_UpstreamFailureGives500 ==
    (mode = "handler" /\ pc = "done" /\ ~NoUsername /\ ~UpstreamSucceeded) =>
        /\ Len(responses) = 1
        /\ responses[1].status = 500
        /\ responses[1].body.kind = "text"
        /\ headers = {}

HasErrors == mode = "handler" /\ Has(data, "errors") /\ data.errors # <<>>

\* C7: a payload with a non-empty errors list ends the request in a single
\* 500 response that carries errors[0].message; nothing is analysed or
\* rendered and no further fetch is issued.
C7_ErrorsPayloadTerminal ==
    HasErrors =>
        /\ pc = "done"
        /\ Len(responses) = 1
        /\ responses[1].status = 500
        /\ responses[1].body = Text(<<"Error: ", data.errors[1].message>>)
        /\ NothingAnalysed
        /\ headers = {}
        /\ fetches = <<"user", "graphql">>

\* a payload that lists two errors beside usable data has been answered
C7_Witness ==
    /\ HasErrors
    /\ Len(data.errors) = 2
    /\ Has(data, "data") /\ data.data # Nil
    /\ pc = "done"
    /\ Len(responses) = 1

=============================================================================
